---- MODULE Spec2Model ----
(***************************************************************************)
(* kucoin_solayer_feed.py: one run of main() -- read the configuration,    *)
(* fetch the candles of every timeframe page by page (fetch_frame over     *)
(* _get with its retries), compute the indicators, fetch the macro data,   *)
(* and PATCH the JSON payload to the Gist.                                 *)
(*                                                                         *)
(* A step of the model is the code between two network responses: every    *)
(* action consumes one response (or the start of the run) and runs the     *)
(* program up to its next request, its return or its uncaught exception.   *)
(*                                                                         *)
(* Floats are the strings "1.0", "2.0", "nan", "inf", "-inf"; a Python     *)
(* value that _clean or json.dumps may meet is a tagged record (Float,     *)
(* None, Dict).  A candle row is [ts, v]: ts is column 0 (milliseconds),   *)
(* v stands for the remaining columns (open, close, high, low, vol).       *)
(***************************************************************************)
EXTENDS Integers, Sequences, FiniteSets, TLC

VARIABLES
    env,        \* os.environ / installation: GIST_ID, GIST_TOKEN, ENDPOINT, pandas_ta
    pc,         \* where the run is: the response it waits for, or how it ended
    caller,     \* who called the fetch_frame in progress: "main" or "btc"
    tfIdx,      \* main's position in TIMEFRAMES (1-based)
    tf,         \* fetch_frame's tf argument
    lookback,   \* fetch_frame's lookback argument
    raw,        \* fetch_frame's raw: the rows collected so far
    end_ms,     \* fetch_frame's end_ms: the cursor of the next page request
    batch,      \* fetch_frame's batch: the last page received
    limit,      \* the "limit" parameter of the last candle request (0: none yet)
    attempts,   \* _get: attempts of the current request that have failed
    df,         \* the frame fetch_frame returned last
    df_alt,     \* btc_correlation's df_alt: main's frame of timeframe "60"
    payload,    \* main's payload
    patches,    \* number of PATCH requests issued
    net,        \* kinds of network calls made so far: subset of {"GET", "PATCH"}
    exhausted,  \* call sites whose _get ran out of retries
    emptyFirst, \* callers whose fetch_frame got 0 rows on its first page
    status,     \* status of the PATCH response (0: none)
    printed,    \* the success message was printed
    error       \* the exception that ended the run ("": none)

vars == <<env, pc, caller, tfIdx, tf, lookback, raw, end_ms, batch, limit,
          attempts, df, df_alt, payload, patches, net, exhausted, emptyFirst,
          status, printed, error>>

---------------------------------------------------------------------------
(* _get's default retries (line 115) *)
RETRIES == 3

(* Bounds of the model.  WARMUP (line 75: 250), MAX_LIMIT (lines 42, 51:    *)
(* 5000 or 1500) and btc_correlation's lookback (line 283: 720) are scaled  *)
(* down, like the lookbacks of TIMEFRAMES, so that the row lists stay       *)
(* enumerable.                                                              *)
WARMUP == 1
MAX_LIMIT == 2
BTC_LOOKBACK == 1
MaxTs == 2          \* distinct timestamps the exchange serves
MaxPageLen == 2     \* rows in one page
MaxLookback == 2    \* lookback of a fetch_frame call taken on its own

MS_PER_BAR_MAP ==
    [k \in {"1m", "5m", "15m", "60", "240", "D"} |->
        CASE k = "1m"  -> 60000
          [] k = "5m"  -> 5 * 60000
          [] k = "15m" -> 15 * 60000
          [] k = "60"  -> 60 * 60000
          [] k = "240" -> 240 * 60000
          [] k = "D"   -> 24 * 60 * 60000]

\* MS_PER_BAR_MAP.get(tf, 60_000)
MsPerBar(t) ==
    IF t \in DOMAIN MS_PER_BAR_MAP THEN MS_PER_BAR_MAP[t] ELSE 60000

\* TIMEFRAMES, as set by the environment variable TIMEFRAMES="60:1,1m:1"
TIMEFRAMES ==
    << [tf |-> "60", lookback |-> 1], [tf |-> "1m", lookback |-> 1] >>

\* int(time.time() * 1000): later than every candle served
Now == (MaxTs + 1) * 60000

Min(a, b) == IF a <= b THEN a ELSE b

---------------------------------------------------------------------------
(* Python values *)

NonFinite == {"nan", "inf", "-inf"}

FloatVals == {"1.0"} \cup NonFinite

NoItems == [k \in {} |-> ""]

Float(x) == [kind |-> "float", f |-> x, items |-> NoItems]
None == [kind |-> "none", f |-> "", items |-> NoItems]
Dict(d) == [kind |-> "dict", f |-> "", items |-> d]
Absent == [kind |-> "absent", f |-> "", items |-> NoItems]

\* _clean: None stays None; a float NaN or +-Infinity becomes None; for any
\* other value (math.isnan raising TypeError on a dict is suppressed) the
\* value itself is returned.
_clean(val) ==
    IF val.kind = "none" THEN None
    ELSE IF val.kind = "float" /\ val.f \in NonFinite THEN None
    ELSE val

---------------------------------------------------------------------------
(* The exchange: the rows a page may hold *)

TsSet == {i * 60000 : i \in 1..MaxTs}

FrameRows == [ts : TsSet, v : {"1.0", "2.0"}]

RunRows == {[ts |-> 60000, v |-> "1.0"], [ts |-> 120000, v |-> "nan"]}

Pages(U) == UNION {[1..n -> U] : n \in 0..MaxPageLen}

---------------------------------------------------------------------------
(* fetch_frame: the frame built from raw *)

HasTs(s, t) == \E i \in 1..Len(s) : s[i].ts = t

\* DataFrame.drop_duplicates("ts"): keep="first" is the default
DropDuplicatesNone(s) == s

RECURSIVE DropDuplicates(_)
DropDuplicates(s) ==
    IF s = << >> THEN << >>
    ELSE LET init == DropDuplicates(SubSeq(s, 1, Len(s) - 1))
             last == s[Len(s)]
         IN  IF HasTs(init, last.ts) THEN init ELSE Append(init, last)

\* insert r after the rows whose ts is <= r.ts (a stable insertion)
RECURSIVE Insert(_, _)
Insert(s, r) ==
    IF s = << >> THEN << r >>
    ELSE IF s[Len(s)].ts <= r.ts THEN Append(s, r)
    ELSE Append(Insert(SubSeq(s, 1, Len(s) - 1), r), s[Len(s)])

\* DataFrame.sort_values("ts"): ascending
RECURSIVE SortValues(_)
SortValues(s) ==
    IF s = << >> THEN << >>
    ELSE Insert(SortValues(SubSeq(s, 1, Len(s) - 1)), s[Len(s)])

\* DataFrame.tail(n), n >= 0
Tail_(s, n) ==
    IF n >= Len(s) THEN s ELSE SubSeq(s, Len(s) - n + 1, Len(s))

\* lines 183-190: drop_duplicates("ts").sort_values("ts"), then tail(lookback)
Assemble(rows, lb) == Tail_(SortValues(DropDuplicates(rows)), lb)

\* line 143
Need(lb) == lb + WARMUP

\* lines 150, 157: the "limit" parameter of a page request
LimitAll(need, have) == MAX_LIMIT

Limit(need, have) == Min(MAX_LIMIT, need - have)

\* _get, line 118: the request is given up after `retries` failed attempts
Exhausted(failed) == failed >= RETRIES

---------------------------------------------------------------------------
(* json.dumps(payload, allow_nan=False) *)

RECURSIVE HasNonFinite(_)
HasNonFinite(val) ==
    \/ val.kind = "float" /\ val.f \in NonFinite
    \/ val.kind = "dict" /\ \E k \in DOMAIN val.items : HasNonFinite(val.items[k])

\* json.dumps raises ValueError exactly when a NaN or an Infinity is left
\* anywhere in the payload
PayloadNonFinite(p) ==
    \/ \E t \in DOMAIN p.candles :
          \E i \in 1..Len(p.candles[t]) : HasNonFinite(p.candles[t][i].v)
    \/ \E t \in DOMAIN p.indicators : HasNonFinite(Dict(p.indicators[t]))
    \/ HasNonFinite(p.btc_correlation_30d)
    \/ HasNonFinite(p.funding)
    \/ HasNonFinite(p.open_interest)
    \/ HasNonFinite(p.order_book)

---------------------------------------------------------------------------
(* main: the pieces of the payload *)

Put(f, k, x) == [j \in DOMAIN f \cup {k} |-> IF j = k THEN x ELSE f[j]]

\* lines 325-328: every column but ts goes through _clean
Bars(frame) ==
    [i \in 1..Len(frame) |-> [ts |-> frame[i].ts, v |-> _clean(Float(frame[i].v))]]

\* calc_indicators, lines 203-232: what ta and pandas_ta may compute for the
\* last row; the nested groups exist only when pandas_ta is installed
IndicatorValues(ptaInstalled) ==
    IF ptaInstalled
    THEN {[ema20 |-> Float(a), macd |-> Dict([hist |-> Float(b)])] :
             a \in FloatVals, b \in FloatVals}
    ELSE {[ema20 |-> Float(a)] : a \in FloatVals}

\* calc_indicators, line 235: {k: _clean(v) for k, v in ind.items()}
CleanIndicators(ind) == [k \in DOMAIN ind |-> _clean(ind[k])]

\* calc_indicators, lines 203-209: .iloc[-1] of an empty series raises IndexError
IndicatorsRaiseNever(frame) == FALSE

IndicatorsRaise(frame) == Len(frame) = 0

\* btc_correlation, lines 282-287: which exceptions are caught around fetch_frame
CaughtAlways(c) == TRUE

Caught(c) == c = "btc"

\* main, lines 309-310: os.environ["GIST_ID"], os.environ["GIST_TOKEN"] raise KeyError
ConfigMissingIgnored(e) == FALSE

ConfigMissing(e) == ~e.gist_id \/ ~e.gist_token

\* line 166: the cursor of the next page
NextCursor(b, t) == b[Len(b)].ts - MsPerBar(t)

\* Response.raise_for_status(): HTTPError for 4xx and 5xx
RaiseForStatus(st) == 400 <= st /\ st < 600

EmptyPayload ==
    [candles |-> [k \in {} |-> << >>],
     indicators |-> [k \in {} |-> NoItems],
     btc_correlation_30d |-> Absent,
     funding |-> Absent,
     open_interest |-> Absent,
     order_book |-> Absent]

---------------------------------------------------------------------------
(* fetch_frame *)

\* lines 141-161: a call of fetch_frame up to its first page request
\* (lookback >= 1 in every call of the model, so the loop is entered)
StartFetch(c, t, lb) ==
    /\ caller' = c
    /\ tf' = t
    /\ lookback' = lb
    /\ raw' = << >>
    /\ end_ms' = Now
    /\ batch' = << >>
    /\ attempts' = 0
    /\ limit' = Limit(Need(lb), 0)
    /\ net' = net \cup {"GET"}
    /\ pc' = "get_candles"

\* the rest of main's loop body after btc_correlation returned corr
\* (line 334), up to the top of the loop
AfterCorrelation(corr) ==
    /\ payload' = [payload EXCEPT !.btc_correlation_30d = _clean(corr)]
    /\ tfIdx' = tfIdx + 1
    /\ pc' = "loop"

\* lines 161-190: a page arrives
CandlesPage(U) ==
    /\ pc = "get_candles"
    /\ \E b \in Pages(U) :
          /\ batch' = b
          /\ raw' = raw \o b
          /\ end_ms' = IF b = << >> THEN end_ms ELSE NextCursor(b, tf)
          /\ emptyFirst' = IF b = << >> /\ raw = << >>
                           THEN emptyFirst \cup {caller} ELSE emptyFirst
          /\ IF b # << >> /\ Len(raw \o b) < Need(lookback)
             THEN /\ limit' = Limit(Need(lookback), Len(raw \o b))
                  /\ pc' = "get_candles"
                  /\ df' = df
             ELSE /\ limit' = limit
                  /\ pc' = "returned"
                  /\ df' = Assemble(raw \o b, lookback)
    /\ attempts' = 0
    /\ UNCHANGED <<env, caller, tfIdx, tf, lookback, df_alt, payload, patches,
                   net, exhausted, status, printed, error>>

\* _get, lines 118-128: an attempt times out, is answered 429 or an error
\* status; after the last one _get raises RuntimeError
CandlesAttemptFails ==
    /\ pc = "get_candles"
    /\ attempts' = attempts + 1
    /\ IF ~Exhausted(attempts + 1)
       THEN UNCHANGED <<pc, payload, tfIdx, exhausted, error>>
       ELSE /\ exhausted' = exhausted \cup {caller}
            /\ IF Caught(caller)
               THEN AfterCorrelation(None) /\ error' = error
               ELSE /\ pc' = "failed"
                    /\ error' = "RuntimeError"
                    /\ UNCHANGED <<payload, tfIdx>>
    /\ UNCHANGED <<env, caller, tf, lookback, raw, end_ms, batch, limit, df,
                   df_alt, patches, net, emptyFirst, status, printed>>

\* line 161: the response has no "data" (an error body): KeyError, raised
\* outside _get and so not retried
CandlesMalformed ==
    /\ pc = "get_candles"
    /\ IF Caught(caller)
       THEN AfterCorrelation(None) /\ error' = error
       ELSE /\ pc' = "failed"
            /\ error' = "KeyError"
            /\ UNCHANGED <<payload, tfIdx>>
    /\ UNCHANGED <<env, caller, tf, lookback, raw, end_ms, batch, limit,
                   attempts, df, df_alt, patches, net, exhausted, emptyFirst,
                   status, printed>>

---------------------------------------------------------------------------
(* main *)

\* lines 309-319
MainStart ==
    /\ pc = "start"
    /\ IF ConfigMissing(env)
       THEN pc' = "failed" /\ error' = "KeyError"
       ELSE pc' = "loop" /\ error' = error
    /\ UNCHANGED <<env, caller, tfIdx, tf, lookback, raw, end_ms, batch, limit,
                   attempts, df, df_alt, payload, patches, net, exhausted,
                   emptyFirst, status, printed>>

\* line 321-322, and 337 when the loop is over: get_funding returns its
\* default without a request when FUNDING_URL is None (spot)
MainLoop ==
    /\ pc = "loop"
    /\ IF tfIdx <= Len(TIMEFRAMES)
       THEN /\ StartFetch("main", TIMEFRAMES[tfIdx].tf, TIMEFRAMES[tfIdx].lookback)
            /\ payload' = payload
       ELSE /\ IF env.endpoint = "spot"
               THEN /\ payload' = [payload EXCEPT
                           !.funding = Dict([current |-> None, predicted |-> None]),
                           !.open_interest = Dict([value |-> None, change_24h_pct |-> None]),
                           !.order_book = Dict(NoItems)]
                    /\ pc' = "push"
                    /\ net' = net
               ELSE /\ payload' = payload
                    /\ pc' = "get_funding"
                    /\ net' = net \cup {"GET"}
            /\ attempts' = 0
            /\ UNCHANGED <<caller, tf, lookback, raw, end_ms, batch, limit>>
    /\ UNCHANGED <<env, tfIdx, df, df_alt, patches, exhausted, emptyFirst,
                   status, printed, error>>

\* lines 323-334: fetch_frame returned to main
MainAfterFrame ==
    /\ pc = "returned"
    /\ caller = "main"
    /\ IF IndicatorsRaise(df)
       THEN /\ pc' = "failed"
            /\ error' = "IndexError"
            /\ UNCHANGED <<caller, tfIdx, tf, lookback, raw, end_ms, batch, limit,
                           attempts, df_alt, payload, net>>
       ELSE /\ \E ind \in IndicatorValues(env.pta) :
                  payload' = [payload EXCEPT
                      !.candles = Put(payload.candles, tf, Bars(df)),
                      !.indicators = Put(payload.indicators, tf, CleanIndicators(ind))]
            /\ error' = error
            /\ IF tf = "60"
               THEN /\ StartFetch("btc", "60", BTC_LOOKBACK)
                    /\ df_alt' = df
                    /\ tfIdx' = tfIdx
               ELSE /\ pc' = "loop"
                    /\ tfIdx' = tfIdx + 1
                    /\ UNCHANGED <<caller, tf, lookback, raw, end_ms, batch,
                                   limit, attempts, df_alt, net>>
    /\ UNCHANGED <<env, df, patches, exhausted, emptyFirst, status, printed>>

\* lines 284-287: fetch_frame returned to btc_correlation; np.corrcoef raises
\* ValueError when the two columns differ in length, and that is caught
BtcAfterFrame ==
    /\ pc = "returned"
    /\ caller = "btc"
    /\ IF Len(df_alt) # Len(df)
       THEN AfterCorrelation(None)
       ELSE \E c \in {"1.0", "nan"} : AfterCorrelation(Float(c))
    /\ UNCHANGED <<env, caller, tf, lookback, raw, end_ms, batch, limit,
                   attempts, df, df_alt, patches, net, exhausted, emptyFirst,
                   status, printed, error>>

---------------------------------------------------------------------------
(* the macro data: get_funding, get_open_interest, get_order_book_depth *)

MacroSites == {"get_funding", "get_funding_hist", "get_oi", "get_ob"}

\* lines 243-252, 258-262, 268-277, 337-339: a macro response arrives
MacroOk ==
    /\ pc \in MacroSites
    /\ attempts' = 0
    /\ CASE pc = "get_funding" ->
              /\ pc' = "get_funding_hist"
              /\ payload' = payload
              /\ net' = net \cup {"GET"}
         [] pc = "get_funding_hist" ->
              /\ pc' = "get_oi"
              /\ payload' = [payload EXCEPT !.funding =
                     Dict([current |-> Float("1.0"), predicted |-> Float("1.0")])]
              /\ net' = net \cup {"GET"}
         [] pc = "get_oi" ->
              /\ pc' = "get_ob"
              /\ payload' = [payload EXCEPT !.open_interest =
                     Dict([value |-> Float("1.0"), change_24h_pct |-> None])]
              /\ net' = net \cup {"GET"}
         [] pc = "get_ob" ->
              /\ pc' = "push"
              /\ payload' = [payload EXCEPT !.order_book =
                     Dict([bids_qty |-> Float("1.0"), imbalance_pct |-> None])]
              /\ net' = net
    /\ UNCHANGED <<env, caller, tfIdx, tf, lookback, raw, end_ms, batch, limit,
                   df, df_alt, patches, exhausted, emptyFirst, status, printed,
                   error>>

\* _get, lines 118-128, called from lines 243, 246, 258, 268: nothing in
\* main or in the getters catches the RuntimeError
MacroAttemptFails ==
    /\ pc \in MacroSites
    /\ attempts' = attempts + 1
    /\ IF ~Exhausted(attempts + 1)
       THEN UNCHANGED <<pc, exhausted, error>>
       ELSE /\ exhausted' = exhausted \cup {pc}
            /\ pc' = "failed"
            /\ error' = "RuntimeError"
    /\ UNCHANGED <<env, caller, tfIdx, tf, lookback, raw, end_ms, batch, limit,
                   df, df_alt, payload, patches, net, emptyFirst, status,
                   printed>>

\* lines 243, 249, 258, 268: a response without "data"
MacroMalformed ==
    /\ pc \in MacroSites
    /\ pc' = "failed"
    /\ error' = "KeyError"
    /\ UNCHANGED <<env, caller, tfIdx, tf, lookback, raw, end_ms, batch, limit,
                   attempts, df, df_alt, payload, patches, net, exhausted,
                   emptyFirst, status, printed>>

---------------------------------------------------------------------------
(* push_gist *)

\* lines 293-302: json.dumps, then the PATCH is sent
PushGist ==
    /\ pc = "push"
    /\ IF PayloadNonFinite(payload)
       THEN /\ pc' = "failed"
            /\ error' = "ValueError"
            /\ UNCHANGED <<patches, net>>
       ELSE /\ pc' = "patch"
            /\ error' = error
            /\ patches' = patches + 1
            /\ net' = net \cup {"PATCH"}
    /\ UNCHANGED <<env, caller, tfIdx, tf, lookback, raw, end_ms, batch, limit,
                   attempts, df, df_alt, payload, exhausted, emptyFirst, status,
                   printed>>

\* the statuses the Gist API may answer (requests follows a redirect that
\* names a Location; 304 names none)
Statuses == {200, 201, 304, 401, 404, 422, 500, 503}

\* lines 303, 342: raise_for_status, then the success message
PatchResponse ==
    /\ pc = "patch"
    /\ \E st \in Statuses :
          /\ status' = st
          /\ IF RaiseForStatus(st)
             THEN pc' = "failed" /\ error' = "HTTPError" /\ printed' = printed
             ELSE pc' = "done" /\ error' = error /\ printed' = TRUE
    /\ UNCHANGED <<env, caller, tfIdx, tf, lookback, raw, end_ms, batch, limit,
                   attempts, df, df_alt, payload, patches, net, exhausted,
                   emptyFirst>>

\* lines 294-302: requests.patch raises (timeout=10, connection error)
PatchTimeout ==
    /\ pc = "patch"
    /\ pc' = "failed"
    /\ error' = "Timeout"
    /\ UNCHANGED <<env, caller, tfIdx, tf, lookback, raw, end_ms, batch, limit,
                   attempts, df, df_alt, payload, patches, net, exhausted,
                   emptyFirst, status, printed>>

---------------------------------------------------------------------------
(* The run of main() *)

Envs == [gist_id : BOOLEAN, gist_token : BOOLEAN,
         endpoint : {"spot", "futures"}, pta : BOOLEAN]

InitCommon ==
    /\ tfIdx = 1
    /\ raw = << >>
    /\ end_ms = Now
    /\ batch = << >>
    /\ attempts = 0
    /\ df = << >>
    /\ df_alt = << >>
    /\ payload = EmptyPayload
    /\ patches = 0
    /\ exhausted = {}
    /\ emptyFirst = {}
    /\ status = 0
    /\ printed = FALSE
    /\ error = ""

Init ==
    /\ env \in Envs
    /\ pc = "start"
    /\ caller = "main"
    /\ tf = ""
    /\ lookback = 0
    /\ limit = 0
    /\ net = {}
    /\ InitCommon

Next ==
    \/ MainStart
    \/ MainLoop
    \/ CandlesPage(RunRows)
    \/ CandlesAttemptFails
    \/ CandlesMalformed
    \/ MainAfterFrame
    \/ BtcAfterFrame
    \/ MacroOk
    \/ MacroAttemptFails
    \/ MacroMalformed
    \/ PushGist
    \/ PatchResponse
    \/ PatchTimeout

Spec == Init /\ [][Next]_vars

---------------------------------------------------------------------------
(* One call fetch_frame(symbol, tf, lookback) on its own, for any timeframe *)
(* (one of the map, one it lacks) and lookback, over the richer rows.      *)

FrameTfs == {"1m", "30"}

InitFrame ==
    /\ env = [gist_id |-> TRUE, gist_token |-> TRUE, endpoint |-> "futures",
              pta |-> FALSE]
    /\ pc = "get_candles"
    /\ caller = "main"
    /\ tf \in FrameTfs
    /\ lookback \in 1..MaxLookback
    /\ limit = Limit(Need(lookback), 0)
    /\ net = {"GET"}
    /\ InitCommon

NextFrame ==
    \/ CandlesPage(FrameRows)
    \/ CandlesAttemptFails
    \/ CandlesMalformed

SpecFrame == InitFrame /\ [][NextFrame]_vars

---------------------------------------------------------------------------
(* Helpers of the properties *)

TsOf(s) == {s[i].ts : i \in 1..Len(s)}

MinTs(s) == CHOOSE t \in TsOf(s) : \A u \in TsOf(s) : t <= u

\* the value of the last row of s whose timestamp is t
LastV(s, t) ==
    s[CHOOSE i \in 1..Len(s) : s[i].ts = t /\ \A j \in (i + 1)..Len(s) : s[j].ts # t].v

\* the rows collected before the last page
Earlier == SubSeq(raw, 1, Len(raw) - Len(batch))

CandleSites == {"main", "btc"}

---------------------------------------------------------------------------
(* C1, as stated: no request is attempted more than 3 times, and whenever a *)
(* candle request of any fetch_frame call has failed 3 times the run has    *)
(* aborted and no PATCH was issued.                                         *)
C1_AnyCandleFailureAborts ==
    /\ attempts <= RETRIES
    /\ exhausted \cap CandleSites # {} => pc = "failed" /\ patches = 0

(* C1, amended: no request is attempted more than 3 times; when a candle    *)
(* request of a fetch_frame call made by main's timeframe loop has failed 3 *)
(* times the run has aborted with _get's RuntimeError, with no PATCH and no *)
(* success message, whichever timeframe or page it was; when it was the BTC *)
(* fetch inside btc_correlation the exception is caught and the correlation *)
(* is null.                                                                 *)
C1_MainCandleFailureAborts ==
    /\ attempts <= RETRIES
    /\ "main" \in exhausted =>
          pc = "failed" /\ error = "RuntimeError" /\ patches = 0 /\ ~printed
    /\ "btc" \in exhausted => payload.btc_correlation_30d.kind = "none"

\* the third attempt failed on a later page of the second timeframe
C1_Witness ==
    /\ "main" \in exhausted
    /\ tfIdx = 2
    /\ raw # << >>
    /\ pc = "failed"

(* C2: when no candle fetch failed, a macro fetch that ran out of retries   *)
(* does not end the run with _get's exception.                              *)
C2_MacroFailureIsolated ==
    (exhausted \cap MacroSites # {} /\ exhausted \cap CandleSites = {})
        => error # "RuntimeError"

(* C3: when GIST_ID or GIST_TOKEN is missing, the run makes no network call *)
(* (no GET, no PATCH) and is either not started or aborted.                 *)
C3_NoNetworkWithoutConfig ==
    (~env.gist_id \/ ~env.gist_token)
        => net = {} /\ patches = 0 /\ pc \in {"start", "failed"}

\* the token is missing and main has raised KeyError
C3_Witness ==
    env.gist_id /\ ~env.gist_token /\ pc = "failed" /\ error = "KeyError"

(* C4: the success message is printed only after a PATCH answered 2xx, and  *)
(* at most one PATCH is issued.                                             *)
C4_SuccessOnly2xx ==
    /\ patches <= 1
    /\ printed => patches = 1 /\ status >= 200 /\ status < 300

(* C5: when a timestamp of the last page was also in an earlier page, the   *)
(* returned frame's row with that timestamp is unique and holds the value   *)
(* of the later-fetched row.                                                *)
C5_LastWriteWins ==
    pc = "returned" =>
        \A i \in 1..Len(df) :
            (HasTs(Earlier, df[i].ts) /\ HasTs(batch, df[i].ts)) =>
                /\ df[i].v = LastV(batch, df[i].ts)
                /\ \A j \in 1..Len(df) : df[j].ts = df[i].ts => j = i

(* C6: after a non-empty page the cursor is the oldest timestamp of that    *)
(* page minus one bar, whatever the order of the page's rows.               *)
C6_CursorIsOldestMinusBar ==
    batch # << >> => end_ms = MinTs(batch) - MsPerBar(tf)

\* the loop's measure: the rows still missing, then the attempts left
Variant ==
    IF pc = "get_candles"
    THEN (Need(lookback) - Len(raw)) * (RETRIES + 1) - attempts
    ELSE 0

(* C7: a page is requested only while rows are missing, asking for between  *)
(* 1 and MAX_LIMIT rows and never more than are still needed; the loop goes *)
(* on only after a non-empty page; it ends without error with the rows      *)
(* collected so far, when enough are collected or a page was empty; and it  *)
(* terminates when every request is answered: every answer (a page or a    *)
(* failed attempt) lowers a measure that is positive in the loop and 0 out  *)
(* of it.                                                                   *)
C7_PaginationTerminates ==
    /\ [](pc = "get_candles" =>
            /\ Len(raw) < Need(lookback)
            /\ 1 <= limit /\ limit <= MAX_LIMIT
            /\ limit <= Need(lookback) - Len(raw)
            /\ raw # << >> => batch # << >>
            /\ Variant > 0)
    /\ [](pc = "returned" =>
            /\ Len(raw) >= Need(lookback) \/ batch = << >>
            /\ error = "")
    /\ [][pc = "get_candles" => Variant' < Variant]_vars

\* an empty page ended the pagination with fewer rows than needed
C7_Witness ==
    /\ pc = "returned"
    /\ batch = << >>
    /\ raw # << >>
    /\ Len(raw) < Need(lookback)

(* C8: when the payload is handed to json.dumps, no NaN or Infinity is left *)
(* in it at any depth.                                                      *)
C8_NoNonFiniteAtDump ==
    pc = "push" => ~PayloadNonFinite(payload)

(* C9, as stated: once the first page of any candle fetch was empty, no     *)
(* PATCH is issued.                                                         *)
C9_AnyEmptyFetchNoPublish ==
    emptyFirst # {} => patches = 0

(* C9, amended: when the first page of a fetch made by main's timeframe     *)
(* loop is empty, fetch_frame returns a frame of length 0 from fewer rows   *)
(* than needed, and the run ends there (IndexError in calc_indicators)      *)
(* without a PATCH; when it is the BTC fetch of btc_correlation, the frame  *)
(* is empty too but the correlation becomes null and the run goes on.       *)
C9_MainEmptyFetchNoPublish ==
    /\ "main" \in emptyFirst =>
          /\ Len(df) = 0 /\ raw = << >> /\ Len(raw) < Need(lookback)
          /\ pc \in {"returned", "failed"}
          /\ pc = "failed" => error = "IndexError"
          /\ patches = 0 /\ ~printed
    /\ "btc" \in emptyFirst =>
          \/ pc = "returned" /\ caller = "btc" /\ Len(df) = 0
          \/ payload.btc_correlation_30d.kind = "none"

\* the second timeframe's first page was empty and the run has ended
C9_Witness ==
    /\ "main" \in emptyFirst
    /\ tfIdx = 2
    /\ pc = "failed"
    /\ error = "IndexError"

(* C10: the returned frame is strictly increasing by timestamp, holds at    *)
(* most lookback rows, namely rows of raw with the largest of the distinct  *)
(* timestamps collected, and is the frame that raw given twice yields.      *)
C10_FrameSortedUniqueTail ==
    pc = "returned" =>
        /\ \A i \in 1..(Len(df) - 1) : df[i].ts < df[i + 1].ts
        /\ Len(df) <= lookback
        /\ \A i \in 1..Len(df) : \E j \in 1..Len(raw) : raw[j] = df[i]
        /\ Cardinality(TsOf(df)) = Min(lookback, Cardinality(TsOf(raw)))
        /\ \A a \in TsOf(df) : \A b \in TsOf(raw) \ TsOf(df) : b < a
        /\ Assemble(raw \o raw, lookback) = df

\* two rows came out of unsorted pages with a repeated timestamp
C10_Witness ==
    /\ pc = "returned"
    /\ Len(df) = 2
    /\ Len(raw) > Cardinality(TsOf(raw))
    /\ raw[1].ts > raw[2].ts

====
